---- MODULE Spec2Model ----
(***************************************************************************)
(* ai-name-buddy: the keyword/abbreviation dictionary (database.py), the   *)
(* similarity index (vectorstore.py), the ReAct agent and its three tools  *)
(* (agents.py) and the command-line loop that confirms and persists a      *)
(* suggestion (main.py).                                                    *)
(*                                                                         *)
(* Several instances of main.py may run against the same dictionary.db and *)
(* chroma_db; each instance is a process of this model.  The language      *)
(* model is an opaque collaborator: what it generates is a nondeterministic*)
(* input, the order of its tool calls is the one the agent prompt          *)
(* prescribes (agents.py template, steps 1-7).                              *)
(***************************************************************************)
EXTENDS Integers, Sequences, FiniteSets, TLC

\* ------------------------------------------------------------------ bounds
\* AgentExecutor is built without max_iterations (agents.py:156), so the
\* library default applies; the model explores a smaller iteration limit.
MaxIterations == 6

Processes == {"p1", "p2"}

\* what the user may type at the keyword prompt (main.py:26)
Keywords == {"", "Closing", "Matching"}
UserInputs == Keywords \cup {"exit", "EXIT"}
\* what the user may type at the save prompt (main.py:58)
SaveInputs == {"Y", "no"}
\* abbreviations the language model may propose
Abbreviations == {"Clsg", "Mtch"}
\* and one it may propose against GENERAL RULE 1 of its prompt, which names
\* it as not correct (agents.py:57)
MiscasedAbbreviations == {"ESC"}

\* str.lower() on the inputs above
lower(s) ==
    CASE s = "EXIT" -> "exit"
      [] s = "Closing" -> "closing"
      [] s = "Matching" -> "matching"
      [] s = "Y" -> "y"
      [] OTHER -> s

\* models.py Word: keyword and abbreviation (description is carried along
\* unchanged and never read by the control flow)
Word(k, a) == [keyword |-> k, abbreviation |-> a]

VARIABLES
    store,          \* rows of table words in dictionary.db, in insertion order
    reachable,      \* sqlite3.connect(Config.DB_PATH) currently succeeds
    index,          \* documents of the Chroma vector store (their metadata)
    pc,             \* position of each main.py instance
    user_keyword,   \* main.py user_keyword
    agent,          \* next step of the agent's thought process (template 1-7)
    iterations,     \* AgentExecutor iteration counter
    avoid,          \* abbreviations the agent keeps track of to avoid (step 6)
    suggestion,     \* abbreviation of the last name_suggestion_tool answer
    abbr,           \* main.py abbr, from the agent's final answer
    save_choice,    \* main.py save_choice
    outcome,        \* how the session ended, until the next keyword is read
    saved,          \* what its persist step reported
    generatorCalls, \* name_suggestion_tool calls of the session
    generatorInput, \* request of the last name_suggestion_tool call
    rejected,       \* abbreviations abbreviation_lookup_tool found taken
    keywordExistedAtStart,  \* the keyword was in the store when it was entered
    takenAtPrompt   \* another instance inserted abbr during the save prompt

sessionVars == <<user_keyword, agent, iterations, avoid, suggestion, abbr,
                 save_choice>>
historyVars == <<outcome, saved, generatorCalls, generatorInput, rejected,
                 keywordExistedAtStart, takenAtPrompt>>
vars == <<store, reachable, index, pc, sessionVars, historyVars>>

\* -------------------------------------------------------------- database.py
\* create_connection: a connection, or None when sqlite3.connect fails
create_connection == IF reachable THEN "conn" ELSE "None"

KeywordInStore(k) == \E i \in DOMAIN store : store[i].keyword = k
AbbreviationInStore(a) == \E i \in DOMAIN store : store[i].abbreviation = a

check_keyword_exists(conn, keyword) ==
    IF conn = "None" THEN FALSE ELSE KeywordInStore(keyword)

check_abbreviation_existsMut(conn, abbreviation) ==
    IF conn = "None" THEN FALSE ELSE ~AbbreviationInStore(abbreviation)
check_abbreviation_exists(conn, abbreviation) ==
    IF conn = "None" THEN FALSE ELSE AbbreviationInStore(abbreviation)

\* the UNIQUE column constraints of create_table_from_model
UniqueConstraintMut(word) == TRUE
UniqueConstraint(word) ==
    /\ ~KeywordInStore(word.keyword)
    /\ ~AbbreviationInStore(word.abbreviation)

\* insert_word: the result reported and the rows afterwards
insert_word_resultMut(conn, word) ==
    IF conn = "None" THEN "no_connection" ELSE "inserted"
insert_word_result(conn, word) ==
    IF conn = "None" THEN "no_connection"
    ELSE IF ~UniqueConstraint(word) THEN "sqlite3_error"
    ELSE "inserted"

insert_word_rows(conn, word) ==
    IF insert_word_result(conn, word) = "inserted"
    THEN Append(store, word) ELSE store

\* the dictionary after setup_database, the index after
\* get_or_create_vectorstore at start-up
InitialWords == <<Word("Closing", "Clsg")>>

\* generatorInput before the first name_suggestion_tool call
NoRequest == [keyword |-> "", avoid |-> <<>>, avoid_note |-> FALSE]

Range(seq) == {seq[i] : i \in DOMAIN seq}

Init ==
    /\ store = InitialWords
    /\ reachable = TRUE
    /\ index = Range(InitialWords)
    /\ pc = [p \in Processes |-> "Input"]
    /\ user_keyword = [p \in Processes |-> ""]
    /\ agent = [p \in Processes |-> "idle"]
    /\ iterations = [p \in Processes |-> 0]
    /\ avoid = [p \in Processes |-> <<>>]
    /\ suggestion = [p \in Processes |-> "None"]
    /\ abbr = [p \in Processes |-> "None"]
    /\ save_choice = [p \in Processes |-> ""]
    /\ outcome = [p \in Processes |-> "none"]
    /\ saved = [p \in Processes |-> "none"]
    /\ generatorCalls = [p \in Processes |-> 0]
    /\ generatorInput = [p \in Processes |-> NoRequest]
    /\ rejected = [p \in Processes |-> <<>>]
    /\ keywordExistedAtStart = [p \in Processes |-> FALSE]
    /\ takenAtPrompt = [p \in Processes |-> FALSE]

\* the locals of a session (main.py's loop body, the agent's scratchpad) as
\* a keyword is read, and again when the loop body is left
ClearSession(p, k, existed) ==
    /\ user_keyword' = [user_keyword EXCEPT ![p] = k]
    /\ agent' = [agent EXCEPT ![p] = "idle"]
    /\ iterations' = [iterations EXCEPT ![p] = 0]
    /\ avoid' = [avoid EXCEPT ![p] = <<>>]
    /\ suggestion' = [suggestion EXCEPT ![p] = "None"]
    /\ abbr' = [abbr EXCEPT ![p] = "None"]
    /\ save_choice' = [save_choice EXCEPT ![p] = ""]
    /\ generatorCalls' = [generatorCalls EXCEPT ![p] = 0]
    /\ generatorInput' = [generatorInput EXCEPT ![p] = NoRequest]
    /\ rejected' = [rejected EXCEPT ![p] = <<>>]
    /\ keywordExistedAtStart' = [keywordExistedAtStart EXCEPT ![p] = existed]
    /\ takenAtPrompt' = [takenAtPrompt EXCEPT ![p] = FALSE]

\* the loop body is left (continue, or its end): back to the keyword prompt
EndSession(p, how, report) ==
    /\ pc' = [pc EXCEPT ![p] = "Input"]
    /\ outcome' = [outcome EXCEPT ![p] = how]
    /\ saved' = [saved EXCEPT ![p] = report]
    /\ ClearSession(p, "", FALSE)

\* agent_executor.invoke returns or raises: its scratchpad is gone
LeaveAgent(p) ==
    /\ agent' = [agent EXCEPT ![p] = "idle"]
    /\ iterations' = [iterations EXCEPT ![p] = 0]
    /\ suggestion' = [suggestion EXCEPT ![p] = "None"]
    /\ generatorInput' = [generatorInput EXCEPT ![p] = NoRequest]

\* ------------------------------------------------------------------ main.py
\* main.py:26-29  the keyword prompt and the exit sentinel
Input(p) ==
    /\ pc[p] = "Input"
    /\ \E text \in UserInputs :
        IF lower(text) = "exit"
        THEN /\ pc' = [pc EXCEPT ![p] = "Exited"]
             /\ ClearSession(p, "", FALSE)
        ELSE /\ pc' = [pc EXCEPT ![p] = "CheckKeyword"]
             /\ ClearSession(p, text, KeywordInStore(text))
    /\ outcome' = [outcome EXCEPT ![p] = "none"]
    /\ saved' = [saved EXCEPT ![p] = "none"]
    /\ UNCHANGED <<store, reachable, index>>

\* main.py:31-36  the keyword pre-check, then agent_executor.invoke
CheckKeyword(p) ==
    /\ pc[p] = "CheckKeyword"
    /\ IF check_keyword_exists(create_connection, user_keyword[p])
       THEN EndSession(p, "AlreadyExists", "none")
       ELSE /\ pc' = [pc EXCEPT ![p] = "Agent"]
            /\ agent' = [agent EXCEPT ![p] = "keyword_lookup_tool"]
            /\ UNCHANGED <<user_keyword, iterations, avoid, suggestion, abbr,
                            save_choice, outcome, saved, generatorCalls,
                            generatorInput, rejected,
                            keywordExistedAtStart, takenAtPrompt>>
    /\ UNCHANGED <<store, reachable, index>>

\* ---------------------------------------------------------------- agents.py
\* AgentExecutor's loop condition: another plan/tool step is allowed
ShouldContinueMut(i) == TRUE
ShouldContinue(i) == i < MaxIterations

\* template steps 5-6: the Action Input of name_suggestion_tool is the
\* original keyword followed by "(avoid: abbr1, abbr2, ...)" with ALL
\* abbreviations found taken so far; the bare keyword while there are none
ActionInputMut(keyword, taken) ==
    [keyword |-> keyword,
     avoid |-> IF taken = <<>> THEN <<>> ELSE <<taken[Len(taken)]>>]
ActionInput(keyword, taken) == [keyword |-> keyword, avoid |-> taken]

\* name_suggestion_tool: the request sent to the language model embeds the
\* Action Input as {keyword}; avoid_note is set when it contains "(avoid:"
name_suggestion_request(input) ==
    [keyword |-> input.keyword,
     avoid |-> input.avoid,
     avoid_note |-> input.avoid # <<>>]

\* template step 6: keep track of ALL abbreviations to avoid, in the order
\* they were found taken
RememberTakenMut(taken, abbreviation) == <<abbreviation>>
RememberTakenOnceMut(taken, abbreviation) ==
    IF abbreviation \in Range(taken) THEN taken ELSE Append(taken, abbreviation)
RememberTaken(taken, abbreviation) == Append(taken, abbreviation)

\* template step 1, keyword_lookup_tool
KeywordLookupTool(p) ==
    /\ pc[p] = "Agent"
    /\ agent[p] = "keyword_lookup_tool"
    /\ ShouldContinue(iterations[p])
    /\ agent' = [agent EXCEPT ![p] =
                    IF check_keyword_exists(create_connection, user_keyword[p])
                    THEN "inform_and_stop" ELSE "name_suggestion_tool"]
    /\ iterations' = [iterations EXCEPT ![p] = @ + 1]
    /\ UNCHANGED <<store, reachable, index, pc, user_keyword, avoid, suggestion,
                   abbr,
                   save_choice, outcome, saved, generatorCalls, generatorInput,
                   rejected, keywordExistedAtStart, takenAtPrompt>>

\* template steps 3 and 5, name_suggestion_tool: the model answers with some
\* abbreviation, or the call raises (Ollama not running) and the exception
\* leaves agent_executor.invoke for main.py:80
name_suggestion_tool(p, answers) ==
    /\ pc[p] = "Agent"
    /\ agent[p] = "name_suggestion_tool"
    /\ ShouldContinue(iterations[p])
    /\ \E answer \in answers \cup {"raise"} :
        IF answer = "raise"
        THEN /\ EndSession(p, "Error", "none")
        ELSE /\ suggestion' = [suggestion EXCEPT ![p] = answer]
             /\ agent' = [agent EXCEPT ![p] = "abbreviation_lookup_tool"]
             /\ generatorInput' = [generatorInput EXCEPT ![p] =
                    name_suggestion_request(ActionInput(user_keyword[p], avoid[p]))]
             /\ generatorCalls' = [generatorCalls EXCEPT ![p] = @ + 1]
             /\ iterations' = [iterations EXCEPT ![p] = @ + 1]
             /\ UNCHANGED <<pc, user_keyword, avoid, abbr, save_choice, outcome,
                            saved, rejected,
                            keywordExistedAtStart, takenAtPrompt>>
    /\ UNCHANGED <<store, reachable, index>>

NameSuggestionTool(p) == name_suggestion_tool(p, Abbreviations)

\* template steps 4-6, abbreviation_lookup_tool: a taken abbreviation joins
\* the abbreviations to avoid and the tool is called again
AbbreviationLookupTool(p) ==
    /\ pc[p] = "Agent"
    /\ agent[p] = "abbreviation_lookup_tool"
    /\ ShouldContinue(iterations[p])
    /\ IF check_abbreviation_exists(create_connection, suggestion[p])
       THEN /\ avoid' = [avoid EXCEPT ![p] = RememberTaken(@, suggestion[p])]
            /\ rejected' = [rejected EXCEPT ![p] = Append(@, suggestion[p])]
            /\ agent' = [agent EXCEPT ![p] = "name_suggestion_tool"]
       ELSE /\ agent' = [agent EXCEPT ![p] = "final_answer"]
            /\ UNCHANGED <<avoid, rejected>>
    /\ iterations' = [iterations EXCEPT ![p] = @ + 1]
    /\ UNCHANGED <<store, reachable, index, pc, user_keyword, suggestion, abbr,
                   save_choice, outcome, saved, generatorCalls, generatorInput,
                   keywordExistedAtStart, takenAtPrompt>>

\* what json.loads and .get("abbreviation") make of the Final Answer
FinalAnswers(step) ==
    IF step = "final_answer"
    THEN {"json", "no_abbreviation", "not_json"}
    ELSE {"no_abbreviation", "not_json"}

\* main.py:53-55  the abbreviation is looked up once more
Recheck(p, abbreviation) ==
    IF check_abbreviation_exists(create_connection, abbreviation)
    THEN EndSession(p, "AbbreviationTaken", "none")
    ELSE /\ pc' = [pc EXCEPT ![p] = "Confirm"]
         /\ outcome' = [outcome EXCEPT ![p] = "Success"]
         /\ abbr' = [abbr EXCEPT ![p] = abbreviation]
         /\ LeaveAgent(p)
         /\ UNCHANGED <<user_keyword, avoid, save_choice, saved,
                        generatorCalls, rejected, keywordExistedAtStart,
                        takenAtPrompt>>

\* template steps 2 and 7, the Final Answer with which agent_executor.invoke
\* returns, then main.py:42-55 and 75-84: the answer is parsed and its
\* abbreviation re-checked
AgentFinish(p) ==
    /\ pc[p] = "Agent"
    /\ agent[p] \in {"final_answer", "inform_and_stop"}
    /\ ShouldContinue(iterations[p])
    /\ \E output \in FinalAnswers(agent[p]) :
        CASE output = "json" -> Recheck(p, suggestion[p])
          [] output = "no_abbreviation" ->
                EndSession(p, "NoAbbreviation", "none")
          [] OTHER -> EndSession(p, "Error", "none")
    /\ UNCHANGED <<store, reachable, index>>

\* the iteration limit: the executor answers "Agent stopped due to iteration
\* limit or time limit.", which json.loads rejects (main.py:43, 80)
AgentStoppedMut(p) == FALSE /\ UNCHANGED vars
AgentStopped(p) ==
    /\ pc[p] = "Agent"
    /\ ~ShouldContinue(iterations[p])
    /\ EndSession(p, "AgentStopped", "none")
    /\ UNCHANGED <<store, reachable, index>>

\* ------------------------------------------------------ main.py, continued
\* main.py:60  the answers that save
SaveConfirmedMut(choice) == TRUE
SaveConfirmed(choice) == choice \in {"yes", "y"}

\* main.py:61-64, 71-72  insert_word
InsertWordMut(p, choice) ==
    /\ store' = insert_word_rows(create_connection,
                                 Word(user_keyword[p], abbr[p]))
    /\ pc' = [pc EXCEPT ![p] = "AddVector"]
    /\ save_choice' = [save_choice EXCEPT ![p] = choice]
    /\ UNCHANGED <<user_keyword, agent, iterations, avoid, suggestion, abbr,
                   outcome, saved, generatorCalls, generatorInput, rejected,
                   keywordExistedAtStart, takenAtPrompt>>
InsertWord(p, choice) ==
    LET word == Word(user_keyword[p], abbr[p])
        result == insert_word_result(create_connection, word)
    IN
    /\ store' = insert_word_rows(create_connection, word)
    /\ IF result = "inserted"
       THEN /\ pc' = [pc EXCEPT ![p] = "AddVector"]
            /\ save_choice' = [save_choice EXCEPT ![p] = choice]
            /\ takenAtPrompt' =
                [q \in Processes |->
                    \/ takenAtPrompt[q]
                    \/ q # p /\ pc[q] = "Confirm" /\ abbr[q] = abbr[p]]
            /\ UNCHANGED <<user_keyword, agent, iterations, avoid, suggestion,
                           abbr, outcome, saved, generatorCalls,
                           generatorInput, rejected, keywordExistedAtStart>>
       ELSE EndSession(p, "Success", result)

\* main.py:58-64, 71-74  the save prompt; on yes, insert_word
Confirm(p) ==
    /\ pc[p] = "Confirm"
    /\ \E text \in SaveInputs :
        IF SaveConfirmed(lower(text))
        THEN InsertWord(p, lower(text))
        ELSE /\ EndSession(p, "Success", "not_saved")
             /\ UNCHANGED store
    /\ UNCHANGED <<reachable, index>>

\* main.py:66-70  add_word_to_vectorstore, which may raise
AddWordToVectorstore(p) ==
    /\ pc[p] = "AddVector"
    /\ \E raised \in BOOLEAN :
        IF raised
        THEN /\ EndSession(p, "Success", "vectorstore_error")
             /\ UNCHANGED index
        ELSE /\ EndSession(p, "Success", "saved")
             /\ index' = index \cup {Word(user_keyword[p], abbr[p])}
    /\ UNCHANGED <<store, reachable>>

\* the user aborts the program at a prompt or during a call
\* (KeyboardInterrupt is not an Exception: main.py:80 does not catch it)
Cancel(p) ==
    /\ pc[p] \notin {"Exited", "Cancelled"}
    /\ pc' = [pc EXCEPT ![p] = "Cancelled"]
    /\ ClearSession(p, "", FALSE)
    /\ outcome' = [outcome EXCEPT ![p] = "none"]
    /\ saved' = [saved EXCEPT ![p] = "none"]
    /\ UNCHANGED <<store, reachable, index>>

\* the environment: dictionary.db stops or starts being openable (the file
\* is moved, its directory's permissions change, file descriptors run out)
Environment ==
    /\ reachable' = ~reachable
    /\ UNCHANGED <<store, index, pc, sessionVars, historyVars>>

\* the steps a session takes without waiting for the user
ControllerStep(p) ==
    \/ CheckKeyword(p)
    \/ KeywordLookupTool(p)
    \/ NameSuggestionTool(p)
    \/ AbbreviationLookupTool(p)
    \/ AgentFinish(p)
    \/ AgentStopped(p)

Next ==
    \/ \E p \in Processes :
        \/ Input(p)
        \/ ControllerStep(p)
        \/ Confirm(p)
        \/ AddWordToVectorstore(p)
        \/ Cancel(p)
    \/ Environment

Spec == Init /\ [][Next]_vars

\* the same behaviours without the user's abort, every started session being
\* run to its end: each call to the store, to a tool and to the language
\* model returns, and main.py runs on with the next statement
LiveNext ==
    \/ \E p \in Processes :
        \/ Input(p)
        \/ ControllerStep(p)
        \/ Confirm(p)
        \/ AddWordToVectorstore(p)
    \/ Environment

LiveSpec ==
    Init /\ [][LiveNext]_vars /\ \A p \in Processes : WF_vars(ControllerStep(p))

\* one running instance whose language model may also answer with the
\* miscased abbreviation
Instance == "p1"

CasingNext ==
    \/ Input(Instance)
    \/ CheckKeyword(Instance)
    \/ KeywordLookupTool(Instance)
    \/ name_suggestion_tool(Instance,
                            Abbreviations \cup MiscasedAbbreviations)
    \/ AbbreviationLookupTool(Instance)
    \/ AgentFinish(Instance)
    \/ AgentStopped(Instance)
    \/ Confirm(Instance)
    \/ AddWordToVectorstore(Instance)
    \/ Cancel(Instance)
    \/ Environment

CasingSpec == Init /\ [][CasingNext]_vars

\* ------------------------------------------------------------------ claims
\* the ways a session ends without a suggestion to confirm: main.py:54
\* (abbreviation taken at the re-check), main.py:77 (no abbreviation in the
\* answer), main.py:81 (an exception; the iteration limit's stop response)
GiveUpOutcomes == {"AbbreviationTaken", "NoAbbreviation", "Error", "AgentStopped"}

\* C1: in every reachable state no two rows of the store share a keyword and
\* no two rows share an abbreviation, whatever the interleaving of the
\* sessions and of their inserts.
C1_StoreUnique ==
    \A i, j \in DOMAIN store :
        i # j => /\ store[i].keyword # store[j].keyword
                 /\ store[i].abbreviation # store[j].abbreviation

\* an insert was refused by the unique constraint after another session's
\* insert went through
C1_Witness ==
    /\ Len(store) >= 2
    /\ \E p \in Processes : saved[p] = "sqlite3_error"

\* C2: every step that changes the store or the index is the insert or the
\* index write of a session that reached Success and whose user answered yes
\* at the save prompt, and what it adds is that session's keyword with the
\* abbreviation that passed the check; every other step (AlreadyExists, the
\* give-up outcomes, a declined prompt, an error, a cancellation) leaves
\* both unchanged.
C2_MutationOnlyAfterConfirm ==
    [][/\ store' # store =>
            \E p \in Processes :
                /\ pc[p] = "Confirm" /\ pc'[p] = "AddVector"
                /\ outcome[p] = "Success"
                /\ save_choice'[p] \in {"yes", "y"}
                /\ abbr[p] \in Abbreviations
                /\ store' = Append(store, Word(user_keyword[p], abbr[p]))
                /\ index' = index
       /\ index' # index =>
            \E p \in Processes :
                /\ pc[p] = "AddVector" /\ pc'[p] = "Input"
                /\ outcome[p] = "Success"
                /\ save_choice[p] \in {"yes", "y"}
                /\ index' = index \cup {Word(user_keyword[p], abbr[p])}
                /\ store' = store]_vars

\* one session saved its word to both stores while another one's user
\* declined
C2_Witness ==
    /\ Len(store) = 2
    /\ Cardinality(index) = 2
    /\ \E p, q \in Processes : saved[p] = "saved" /\ saved[q] = "not_saved"

\* C3: a session whose keyword was in the store when it was entered never
\* gets past the keyword pre-check (it can only end there, AlreadyExists) and
\* makes no name_suggestion_tool call.
C3_ExistingKeywordShortCircuits ==
    \A p \in Processes :
        keywordExistedAtStart[p] =>
            /\ generatorCalls[p] = 0
            /\ pc[p] = "CheckKeyword"

\* C4: every session that was started reaches an outcome: AlreadyExists,
\* Success, or one of the give-up outcomes, whatever the language model
\* answers.
C4_SessionTerminates ==
    \A p \in Processes :
        (pc[p] = "CheckKeyword") ~>
            (outcome[p] \in {"AlreadyExists", "Success"} \cup GiveUpOutcomes)

\* a session was ended by the iteration limit after a taken abbreviation
C4_Witness ==
    \E p \in Processes : outcome[p] = "AgentStopped"

\* C5: no session makes more than MaxIterations + 1 name_suggestion_tool
\* calls.
C5_GeneratorCallsBounded ==
    \A p \in Processes : generatorCalls[p] <= MaxIterations + 1

\* a session that used the whole iteration budget on retries
C5_Witness ==
    \E p \in Processes :
        /\ generatorCalls[p] = MaxIterations \div 2
        /\ ~ShouldContinue(iterations[p])
        /\ rejected[p] # <<>>

\* the iteration budget is used up while every suggestion so far was found
\* taken (the last one may still wait for its lookup)
BudgetExhaustedOnCollisions(p) ==
    /\ pc[p] = "Agent"
    /\ ~ShouldContinue(iterations[p])
    /\ \/ agent[p] = "name_suggestion_tool"
       \/ agent[p] = "abbreviation_lookup_tool" /\ AbbreviationInStore(suggestion[p])

C7_SuccessNotInAvoidSet ==
    \A p \in Processes :
        outcome[p] = "Success" /\ abbr[p] # "None" =>
            \A i \in DOMAIN avoid[p] : avoid[p][i] # abbr[p]

C9_NoInsertOfTakenAbbreviation ==
    [][\A p \in Processes :
        takenAtPrompt[p] /\ pc[p] = "Confirm" /\ pc'[p] = "Input" =>
            saved'[p] = "not_saved"]_vars

\* a lookup of the session's keyword or abbreviation is made in this step
LookupStep(p) ==
    /\ pc'[p] # "Cancelled"
    /\ \/ pc[p] = "CheckKeyword" /\ pc'[p] # pc[p]
       \/ /\ pc[p] = "Agent"
          /\ agent[p] \in {"keyword_lookup_tool", "abbreviation_lookup_tool"}
          /\ agent'[p] # agent[p]
       \/ pc[p] = "Agent" /\ pc'[p] = "Confirm"

\* C10: a lookup made while the store cannot be reached ends the session at
\* once with StoreUnavailable: the session does not go on as if the value
\* did not exist.
C10_UnreachableStoreAborts ==
    [][\A p \in Processes :
        ~reachable /\ LookupStep(p) =>
            pc'[p] = "Input" /\ outcome'[p] = "StoreUnavailable"]_vars

\* the session's Generator step fails in this step while iterations remain:
\* name_suggestion_tool raises (GenerationUnavailable), or the answer handed
\* to main.py is not JSON or lacks the abbreviation field (MalformedCandidate)
GeneratorFailure(p) ==
    /\ pc[p] = "Agent"
    /\ ShouldContinue(iterations[p])
    /\ \/ agent[p] = "name_suggestion_tool" /\ outcome'[p] = "Error"
       \/ /\ agent[p] = "final_answer"
          /\ outcome'[p] \in {"Error", "NoAbbreviation"}

\* C11: a Generator failure that happens while budget remains does not end
\* the session: the session stays in the agent's loop for another
\* name_suggestion_tool call.
C11_GeneratorFailureRetried ==
    [][\A p \in Processes :
        GeneratorFailure(p) =>
            pc'[p] = "Agent" /\ agent'[p] = "name_suggestion_tool"]_vars

\* the user answers yes at the save prompt in this step, so insert_word is
\* called with the session's word
InsertAttempted(p) ==
    /\ pc[p] = "Confirm"
    /\ pc'[p] \in {"Input", "AddVector"}
    /\ saved'[p] # "not_saved"

\* C12: an insert_word call made with a reachable store for a word whose
\* keyword or abbreviation is already in the store is reported as a failed
\* insert, changes neither the store nor the index, and ends the session
\* without the index write and without "saved".
C12_DuplicateInsertReported ==
    [][\A p \in Processes :
        /\ InsertAttempted(p)
        /\ reachable
        /\ KeywordInStore(user_keyword[p]) \/ AbbreviationInStore(abbr[p])
        => /\ saved'[p] = "sqlite3_error"
           /\ pc'[p] = "Input"
           /\ store' = store
           /\ index' = index]_vars

\* an insert was refused while the other session's word is in both stores
C12_Witness ==
    \E p, q \in Processes :
        /\ saved[p] = "sqlite3_error"
        /\ outcome[p] = "Success"
        /\ saved[q] = "saved"
        /\ Cardinality(index) = Len(store)

\* abbreviation_lookup_tool finds the session's suggestion taken in this step
Collision(p) ==
    /\ pc[p] = "Agent"
    /\ agent[p] = "abbreviation_lookup_tool"
    /\ iterations'[p] = iterations[p] + 1
    /\ check_abbreviation_exists(create_connection, suggestion[p])

\* the session of p goes on after this step (it is neither ended nor aborted)
SessionContinues(p) ==
    /\ pc[p] \in {"CheckKeyword", "Agent", "Confirm", "AddVector"}
    /\ pc'[p] \in {"CheckKeyword", "Agent", "Confirm", "AddVector"}

Letters(s) ==
    CASE s = "Clsg" -> <<"C", "l", "s", "g">>
      [] s = "Mtch" -> <<"M", "t", "c", "h">>
      [] s = "ESC" -> <<"E", "S", "C">>
      [] OTHER -> <<>>

UppercaseLetters ==
    {"A", "B", "C", "D", "E", "F", "G", "H", "I", "J", "K", "L", "M",
     "N", "O", "P", "Q", "R", "S", "T", "U", "V", "W", "X", "Y", "Z"}

\* GENERAL RULE 1 (agents.py:57): uppercase initial, no more uppercase letters
CasingRule(s) ==
    /\ Letters(s) # <<>>
    /\ Letters(s)[1] \in UppercaseLetters
    /\ \A i \in 2..Len(Letters(s)) : Letters(s)[i] \notin UppercaseLetters

\* C14: the abbreviation a session offers at the save prompt (Success) and
\* the abbreviation of every row of the store conform to the casing rule.
C14_CasingRuleEnforced ==
    /\ \A p \in Processes :
        outcome[p] = "Success" /\ abbr[p] # "None" => CasingRule(abbr[p])
    /\ \A i \in DOMAIN store : CasingRule(store[i].abbreviation)

\* C15: every row of the store has a non-empty keyword and a non-empty
\* abbreviation, whatever the users typed and the language model answered.
C15_PersistedEntriesNonEmpty ==
    \A i \in DOMAIN store :
        store[i].keyword # "" /\ store[i].abbreviation # ""

\* the session's keyword is not in the store and neither is the abbreviation
\* of its first name_suggestion_tool answer, which waits for its lookup or
\* has passed it
FirstCandidateFree(p) ==
    /\ pc[p] = "Agent"
    /\ agent[p] \in {"abbreviation_lookup_tool", "final_answer"}
    /\ generatorCalls[p] = 1
    /\ ~KeywordInStore(user_keyword[p])
    /\ ~AbbreviationInStore(suggestion[p])

\* the session of p takes a step of its own, other than being aborted
SessionStep(p) ==
    /\ pc'[p] # pc[p] \/ agent'[p] # agent[p]
    /\ pc'[p] # "Cancelled"

\* the candidate passes its lookup: nothing is added to the avoid-set and no
\* further name_suggestion_tool call is planned
CandidatePassesLookup(p) ==
    /\ pc'[p] = "Agent"
    /\ agent'[p] = "final_answer"
    /\ suggestion'[p] = suggestion[p]
    /\ generatorCalls'[p] = 1
    /\ avoid'[p] = <<>>

\* Success with the candidate, after one Generator call, avoid-set empty
SuccessWithCandidate(p) ==
    /\ pc'[p] = "Confirm"
    /\ outcome'[p] = "Success"
    /\ abbr'[p] = suggestion[p]
    /\ generatorCalls'[p] = 1
    /\ avoid'[p] = <<>>

GenerationUnavailable(p) ==
    /\ pc[p] = "Agent"
    /\ agent[p] = "name_suggestion_tool"
    /\ ShouldContinue(iterations[p])
    /\ SessionStep(p)
    /\ generatorCalls'[p] # generatorCalls[p] + 1

\* C17: a failed name_suggestion_tool call costs exactly one attempt of the
\* budget: the session is back at the Generator step with its counter one
\* higher, and the avoid-set as it was.
C17_FailureConsumesOneAttempt ==
    [][\A p \in Processes :
        GenerationUnavailable(p) =>
            /\ pc'[p] = "Agent"
            /\ agent'[p] = "name_suggestion_tool"
            /\ iterations'[p] = iterations[p] + 1
            /\ avoid'[p] = avoid[p]]_vars

\* C18: every word of the index is a row of the store, and so is the word of
\* a session that is about to write the index; an index write that raises
\* is reported, leaves the index as it was and does not take the row out of
\* the store again.
C18_IndexAfterStore ==
    /\ [](/\ index \subseteq Range(store)
          /\ \A p \in Processes :
                pc[p] = "AddVector" =>
                    Word(user_keyword[p], abbr[p]) \in Range(store))
    /\ [][\A p \in Processes :
            pc[p] = "AddVector" /\ saved'[p] = "vectorstore_error" =>
                /\ store' = store
                /\ index' = index
                /\ Word(user_keyword[p], abbr[p]) \in Range(store')
                /\ outcome'[p] = "Success"]_vars

\* a row of the store is missing from the index after a failed index write
C18_Witness ==
    /\ \E p \in Processes : saved[p] = "vectorstore_error"
    /\ \E i \in DOMAIN store : store[i] \notin index

\* C19: once check_keyword_exists or check_abbreviation_exists answers True
\* for a value it answers True in every later state, and while a session
\* lasts every abbreviation of its avoid-set stays in the store.
C19_ExistsStaysTrue ==
    [][/\ \A k \in Keywords :
            check_keyword_exists(create_connection, k) =>
                (check_keyword_exists(create_connection, k))'
       /\ \A a \in Abbreviations \cup MiscasedAbbreviations :
            check_abbreviation_exists(create_connection, a) =>
                (check_abbreviation_exists(create_connection, a))'
       /\ \A p \in Processes :
            SessionContinues(p) =>
                \A i \in DOMAIN avoid[p] :
                    (AbbreviationInStore(avoid[p][i]))']_vars

====
